---- MODULE Spec2Model ----
(***************************************************************************)
(* Model of Comparer_densité_documents_urbanisme.py: the tiled harvest of  *)
(* zoning documents per department, its cleaning, aggregation and export.  *)
(*                                                                         *)
(* Three specifications:                                                   *)
(*   SpecTiles  the tile-generation loops of process_department, run on    *)
(*              bounding boxes of IEEE-754 doubles;                        *)
(*   SpecDept   one call of process_department, tile after tile;           *)
(*   Spec       the whole run of main(): the three department tasks on the *)
(*              thread pool, the collection of their futures, the merge,   *)
(*              generate_stats and save_results.                           *)
(***************************************************************************)
EXTENDS Integers, Sequences, FiniteSets, TLC

VARIABLES
    \* ---- tile generation (SpecTiles) ----
    bbox,       \* the bounding box being tiled: <<minX, minY, maxX, maxY>>
    tsize,      \* the tile size
    x, y,       \* the loop variables of lines 76-82
    tiles,      \* the list `tiles`
    tpc,        \* position in the loops: "outer", "inner", "done"
    \* ---- the department tasks (process_department on the pool) ----
    tstate,     \* per department: "idle", "pending", "running", "finished"
    ti,         \* per department: how many of its tiles the loop of line 86 has done
    tresults,   \* per department: the local list `results` of process_department
    fut,        \* per department: what its future holds
    \* ---- main ----
    mpc,        \* where main is
    nsub,       \* how many departments main has submitted
    cidx,       \* the index in `futures` of the future main reads next
    mresults,   \* main's list `results`
    final_gdf,  \* main's `final_gdf`
    stats,      \* main's `stats`
    writes,     \* per output file: how many times a write of it was attempted
    files,      \* per output file: what is on disk
    mexc,       \* the exception main ended with, "none" if none
    \* ---- SpecDept only ----
    fetched     \* what get_features returned, tile after tile

tvars == <<bbox, tsize, x, y, tiles, tpc>>
wvars == <<tstate, ti, tresults, fut>>
mvars == <<mpc, nsub, cidx, mresults, final_gdf, stats, writes, files, mexc>>
vars  == <<tvars, wvars, mvars, fetched>>

(***************************************************************************)
(* Python floats.  Every coordinate of the program is a non-negative       *)
(* IEEE-754 double below 64 that is a multiple of 2^-56 (the unit in the   *)
(* last place of 0.1).  A double is kept exactly, as the integer           *)
(* value * 2^56 written in three limbs <<a, b, c>> of 24 bits:             *)
(*     value * 2^56 = (a * 2^24 + b) * 2^24 + c.                           *)
(* Addition is the exact sum rounded to 53 significant bits, ties to even, *)
(* as the hardware does it.                                                *)
(***************************************************************************)
LimbBase == 4096 * 4096

RECURSIVE Log2(_)
Log2(n) == IF n < 2 THEN 0 ELSE 1 + Log2(n \div 2)

RECURSIVE Pow2(_)
Pow2(k) == IF k = 0 THEN 1 ELSE 2 * Pow2(k - 1)

\* the exact sum of two values, no rounding
ExactAdd(u, v) ==
    LET c == u[3] + v[3]
        b == u[2] + v[2] + (c \div LimbBase)
        a == u[1] + v[1] + (b \div LimbBase)
    IN  <<a, b % LimbBase, c % LimbBase>>

\* round an exact value to the nearest double, ties to even.  A value below
\* 2^53 units (a < 32) has at most 53 bits and is a double already; above,
\* the binade is 2^(48 + Log2(a)) and the last k = Log2(a) - 4 bits go.
RoundToDouble(v) ==
    IF v[1] < 32 THEN v
    ELSE LET k  == Log2(v[1]) - 4
             u  == Pow2(k)
             q  == v[3] \div u
             r  == v[3] % u
             up == (2 * r > u) \/ (2 * r = u /\ q % 2 = 1)
             c  == (IF up THEN q + 1 ELSE q) * u
         IN  ExactAdd(<<v[1], v[2], 0>>, <<0, 0, c>>)

\* Python's  u + v  on floats
FAdd(u, v) == RoundToDouble(ExactAdd(u, v))

\* Python's  u < v  on floats
FLess(u, v) ==
    \/ u[1] < v[1]
    \/ u[1] = v[1] /\ u[2] < v[2]
    \/ u[1] = v[1] /\ u[2] = v[2] /\ u[3] < v[3]

FLeq(u, v) == ~FLess(v, u)

\* Python's  min(u, v)
FMin(u, v) == IF FLess(v, u) THEN v ELSE u

(***************************************************************************)
(* The float literals of the source, as the doubles Python reads them.     *)
(***************************************************************************)
D0_0  == <<0, 0, 0>>
D0_1  == <<25, 10066329, 10066330>>
D0_25 == <<64, 0, 0>>
D0_5  == <<128, 0, 0>>
D0_3  == <<76, 13421772, 13421772>>
D0_8  == <<204, 13421772, 13421776>>
D2_3  == <<588, 13421772, 13421760>>
D2_4  == <<614, 6710886, 6710880>>
D4_7  == <<1203, 3355443, 3355456>>
D4_9  == <<1254, 6710886, 6710912>>
D5_4  == <<1382, 6710886, 6710912>>
D43_2 == <<11059, 3355443, 3355648>>
D43_5 == <<11136, 0, 0>>
D45_7 == <<11699, 3355443, 3355648>>
D45_8 == <<11724, 13421772, 13421568>>
D48_8 == <<12492, 13421772, 13421568>>
D48_9 == <<12518, 6710886, 6710784>>

DEPT_CODES == <<"13", "69", "75">>

Depts == {DEPT_CODES[i] : i \in 1..Len(DEPT_CODES)}

BBOX_TARGET ==
    [d \in Depts |->
        CASE d = "13" -> <<D4_7, D43_2, D5_4, D43_5>>
          [] d = "69" -> <<D4_7, D45_7, D4_9, D45_8>>
          [] d = "75" -> <<D2_3, D48_8, D2_4, D48_9>>]

TILE_SIZE == D0_1

MAX_WORKERS == 3

(***************************************************************************)
(* Python values: None, a pandas frame, a name not bound yet, and what a   *)
(* future holds once its task has ended.                                   *)
(***************************************************************************)
None == [tag |-> "None"]

Unset == [tag |-> "unset"]

DataFrame(rows) == [tag |-> "df", rows |-> rows]

Returned(v) == [tag |-> "result", value |-> v]

Raised(e) == [tag |-> "exception", exc |-> e]

\* the frame gpd.read_file builds from a payload: its columns and its rows
GeoDataFrame(cols, rows) == [tag |-> "gdf", cols |-> cols, rows |-> rows]

\* one feature of the layer; its geometry is kept as its area in km2
Feature(id, p, a) == [gpu_doc_id |-> id, partition |-> p, geometry |-> a]

AllCols == {"gpu_doc_id", "partition", "geometry"}

(***************************************************************************)
(* What the remote service may answer to one tile request.  A partition    *)
(* identifier is a sequence of characters.                                 *)
(***************************************************************************)
P_13   == <<"D", "U", "_", "1", "3", "0", "5", "5">>
P_69   == <<"D", "U", "_", "6", "9", "1", "2", "3">>
P_75   == <<"7", "5", "0", "5", "6">>
P_7_13 == <<"7", "_", "1", "3", "2">>
P_none == <<"P", "L", "U", "_", "7">>

F_empty  == GeoDataFrame(AllCols, <<>>)
F_mixed  == GeoDataFrame(AllCols, <<Feature(1, P_13, 2), Feature(2, P_69, 1)>>)
F_paris  == GeoDataFrame(AllCols, <<Feature(3, P_75, 0), Feature(4, P_none, 1)>>)
F_late   == GeoDataFrame(AllCols, <<Feature(5, P_7_13, 3)>>)
\* payloads that parse but lack a field of the layer
F_nopart == GeoDataFrame({"gpu_doc_id", "geometry"}, <<Feature(6, <<>>, 1)>>)
F_nodoc  == GeoDataFrame({"partition", "geometry"}, <<Feature(0, P_69, 1)>>)

Frames == {F_empty, F_mixed, F_paris, F_late, F_nopart, F_nodoc}

FailureKinds == {"transport_error", "http_error", "unparsable"}

Responses ==
    {[kind |-> k, body |-> None] : k \in FailureKinds}
    \cup {[kind |-> "ok", body |-> f] : f \in Frames}

(***************************************************************************)
(* get_features, lines 24-43: every exception of the request, of the       *)
(* status check and of the parse is caught and None is returned.           *)
(***************************************************************************)
get_features(tile, dept_code, resp) ==
    IF resp.kind = "ok" THEN resp.body ELSE None

(***************************************************************************)
(* clean_data, lines 45-67.                                                *)
(***************************************************************************)
Digits == {"0", "1", "2", "3", "4", "5", "6", "7", "8", "9"}

NaN == "NaN"

\* .str.extract(r'(\d{2})'), line 56: the regex search scans from the left and
\* stops at the first position where two digits follow each other
RECURSIVE ExtractFrom(_, _)
ExtractFrom(p, i) ==
    IF i + 1 > Len(p) THEN NaN
    ELSE IF p[i] \in Digits /\ p[i + 1] \in Digits THEN p[i] \o p[i + 1]
    ELSE ExtractFrom(p, i + 1)

str_extract(p) == ExtractFrom(p, 1)

\* a faulty variant of Keeps: every record with a code is kept
KeepsAnyCode(dep, dept_code) == dep # NaN

\* the mask of line 59
Keeps(dep, dept_code) == dep = dept_code

\* the value clean_data returns, or the exception it raises: the subscripts of
\* lines 56 and 67 raise KeyError on a frame without the column
clean_data(gdf, dept_code) ==
    IF gdf = None THEN Returned(None)
    ELSE IF gdf.rows = <<>> THEN Returned(None)
    ELSE IF "partition" \notin gdf.cols THEN Raised("KeyError")
    ELSE LET withDep  == [i \in 1..Len(gdf.rows) |->
                             [gpu_doc_id |-> gdf.rows[i].gpu_doc_id,
                              partition  |-> gdf.rows[i].partition,
                              dep        |-> str_extract(gdf.rows[i].partition),
                              area_km2   |-> gdf.rows[i].geometry]]
             filtered == SelectSeq(withDep, LAMBDA r : Keeps(r.dep, dept_code))
         IN  IF filtered = <<>> THEN Returned(None)
             ELSE IF "gpu_doc_id" \notin gdf.cols THEN Raised("KeyError")
             ELSE Returned(DataFrame(filtered))

(***************************************************************************)
(* pd.concat(frames, ignore_index=True), lines 94 and 143.                 *)
(***************************************************************************)
RECURSIVE ConcatRows(_)
ConcatRows(frames) ==
    IF frames = <<>> THEN <<>> ELSE Head(frames).rows \o ConcatRows(Tail(frames))

pd_concat(frames) == DataFrame(ConcatRows(frames))

(***************************************************************************)
(* generate_stats, lines 96-106.  groupby('dep') yields its groups in the  *)
(* order of the sorted keys; the keys are department codes, and DEPT_CODES *)
(* is sorted.                                                              *)
(***************************************************************************)
RECURSIVE SumArea(_)
SumArea(rows) == IF rows = <<>> THEN 0 ELSE Head(rows).area_km2 + SumArea(Tail(rows))

\* nb_documents / total_area on float columns: a zero divisor gives inf, no exception
Divide(n, a) == IF a = 0 THEN [kind |-> "inf"] ELSE [kind |-> "ratio", num |-> n, den |-> a]

StatsRow(rows, d) ==
    LET group == SelectSeq(rows, LAMBDA r : r.dep = d)
    IN  [dep |-> d, nb_documents |-> Len(group), total_area |-> SumArea(group),
         density |-> Divide(Len(group), SumArea(group))]

generate_stats(gdf) ==
    IF gdf.rows = <<>> THEN None
    ELSE LET keys == SelectSeq(DEPT_CODES, LAMBDA d : \E i \in 1..Len(gdf.rows) : gdf.rows[i].dep = d)
         IN  DataFrame([k \in 1..Len(keys) |-> StatsRow(gdf.rows, keys[k])])

(***************************************************************************)
(* The parts of the state a specification leaves alone.                    *)
(***************************************************************************)
FileNames ==
    {"documents_urbanisme.gpkg", "documents_urbanisme.geojson", "statistiques_departements.csv"}

IdleTiles ==
    /\ bbox = <<D0_0, D0_0, D0_0, D0_0>>
    /\ tsize = TILE_SIZE
    /\ x = D0_0
    /\ y = D0_0
    /\ tiles = <<>>
    /\ tpc = "idle"

IdleWorkers ==
    /\ tstate = [d \in Depts |-> "idle"]
    /\ ti = [d \in Depts |-> 0]
    /\ tresults = [d \in Depts |-> <<>>]
    /\ fut = [d \in Depts |-> Unset]

IdleMain ==
    /\ mpc = "idle"
    /\ nsub = 0
    /\ cidx = 1
    /\ mresults = <<>>
    /\ final_gdf = Unset
    /\ stats = Unset
    /\ writes = [f \in FileNames |-> 0]
    /\ files = [f \in FileNames |-> Unset]
    /\ mexc = "none"

(***************************************************************************)
(* Tile generation, lines 75-82, one action per loop test.                 *)
(***************************************************************************)
\* the tuple appended at line 80
TileAt(px, py, box, t) ==
    <<px, py, FMin(FAdd(px, t), box[3]), FMin(FAdd(py, t), box[4])>>

\* the boxes and tile sizes the loops are run on: the three configured boxes,
\* boxes of other widths, and boxes of zero width or height
TestBoxes ==
    {BBOX_TARGET[d] : d \in Depts}
    \cup {<<D0_0, D0_0, D0_8, D0_3>>, <<D0_0, D0_0, D0_5, D0_25>>,
          <<D0_3, D0_0, D0_8, D0_1>>, <<D2_3, D43_2, D2_4, D43_5>>,
          <<D2_3, D48_8, D2_3, D48_9>>, <<D2_3, D48_8, D2_4, D48_8>>,
          <<D4_7, D45_7, D4_7, D45_7>>}

TileSizes == {D0_1, D0_25, D0_5}

InitTiles ==
    /\ IdleWorkers /\ IdleMain /\ fetched = <<>>
    /\ bbox \in TestBoxes
    /\ tsize \in TileSizes
    /\ x = bbox[1]                       \* line 76
    /\ y = bbox[2]
    /\ tiles = <<>>                      \* line 73
    /\ tpc = "outer"

\* line 77: while x < bbox[2]; line 78: y = bbox[1]
OuterTest ==
    /\ tpc = "outer"
    /\ IF FLess(x, bbox[3])
       THEN /\ y' = bbox[2]
            /\ tpc' = "inner"
       ELSE /\ tpc' = "done"
            /\ y' = y
    /\ UNCHANGED <<bbox, tsize, x, tiles, wvars, mvars, fetched>>

\* line 79: while y < bbox[3]; lines 80-81 the body; line 82 after the loop
InnerTest ==
    /\ tpc = "inner"
    /\ IF FLess(y, bbox[4])
       THEN /\ tiles' = Append(tiles, TileAt(x, y, bbox, tsize))
            /\ y' = FAdd(y, tsize)
            /\ UNCHANGED <<x, tpc>>
       ELSE /\ x' = FAdd(x, tsize)
            /\ tpc' = "outer"
            /\ UNCHANGED <<y, tiles>>
    /\ UNCHANGED <<bbox, tsize, wvars, mvars, fetched>>

NextTiles == OuterTest \/ InnerTest

SpecTiles == InitTiles /\ [][NextTiles]_vars

\* the same loops as one function: the list `tiles` of lines 75-82
RECURSIVE GenColumn(_, _, _, _)
GenColumn(px, py, box, t) ==
    IF FLess(py, box[4])
    THEN <<TileAt(px, py, box, t)>> \o GenColumn(px, FAdd(py, t), box, t)
    ELSE <<>>

RECURSIVE GenFrom(_, _, _)
GenFrom(px, box, t) ==
    IF FLess(px, box[3])
    THEN GenColumn(px, box[2], box, t) \o GenFrom(FAdd(px, t), box, t)
    ELSE <<>>

GenTiles(box, t) == GenFrom(box[1], box, t)

LoopsAgree == tpc = "done" => tiles = GenTiles(bbox, tsize)

(***************************************************************************)
(* process_department, lines 69-94, as the task of one department.         *)
(***************************************************************************)
\* the list `tiles` of each department, lines 72-82
TilesOf == [d \in Depts |-> GenTiles(BBOX_TARGET[d], TILE_SIZE)]

NumTiles(d) == Len(TilesOf[d])

\* how many cleaned batches a department is let to gather
MaxBatches == 2

Running == {d \in Depts : tstate[d] = "running"}

\* a worker thread of the pool takes the task
Start(d) ==
    /\ tstate[d] = "pending"
    /\ Cardinality(Running) < MAX_WORKERS
    /\ tstate' = [tstate EXCEPT ![d] = "running"]
    /\ UNCHANGED <<ti, tresults, fut, tvars, mvars>>

\* one turn of the loop of lines 86-92, the service answering resp.  An
\* exception of clean_data leaves the loop and the function: the pool stores
\* it in the future.
ProcessTile(d, resp) ==
    /\ tstate[d] = "running"
    /\ ti[d] < NumTiles(d)
    /\ LET tile    == TilesOf[d][ti[d] + 1]
           data    == get_features(tile, d, resp)
           cleaned == clean_data(data, d)
       IN  IF cleaned.tag = "exception"
           THEN /\ fut' = [fut EXCEPT ![d] = cleaned]
                /\ tstate' = [tstate EXCEPT ![d] = "finished"]
                /\ UNCHANGED <<ti, tresults>>
           ELSE /\ cleaned.value # None => Len(tresults[d]) < MaxBatches
                /\ tresults' = [tresults EXCEPT ![d] =
                                   IF cleaned.value # None THEN Append(@, cleaned.value) ELSE @]
                /\ ti' = [ti EXCEPT ![d] = @ + 1]
                /\ UNCHANGED <<tstate, fut>>
    /\ UNCHANGED <<tvars, mvars>>

\* line 94, and the pool setting the future's result
Return(d) ==
    /\ tstate[d] = "running"
    /\ ti[d] = NumTiles(d)
    /\ fut' = [fut EXCEPT ![d] =
                  Returned(IF tresults[d] # <<>> THEN pd_concat(tresults[d]) ELSE None)]
    /\ tstate' = [tstate EXCEPT ![d] = "finished"]
    /\ UNCHANGED <<ti, tresults, tvars, mvars>>

(***************************************************************************)
(* main, lines 128-151, and save_results, lines 108-126.                   *)
(***************************************************************************)
GPKG == "documents_urbanisme.gpkg"

GEOJSON == "documents_urbanisme.geojson"

CSV == "statistiques_departements.csv"

\* line 133: the departments are submitted in the order of DEPT_CODES
Submit ==
    /\ mpc = "submit"
    /\ nsub < Len(DEPT_CODES)
    /\ tstate' = [tstate EXCEPT ![DEPT_CODES[nsub + 1]] = "pending"]
    /\ nsub' = nsub + 1
    /\ mpc' = IF nsub + 1 = Len(DEPT_CODES) THEN "collect" ELSE "submit"
    /\ UNCHANGED <<ti, tresults, fut, cidx, mresults, final_gdf, stats, writes, files, mexc, tvars>>

\* a faulty variant of FutureOrder: the futures taken last first
ReversedOrder == <<"75", "69", "13">>

\* line 134: a dict is iterated in insertion order, the order of submission
FutureOrder == DEPT_CODES

\* a faulty variant of ResultReady: a read that does not wait
ResultAlwaysReady(d) == TRUE

\* future.result() returns once the future is done, and blocks until then
ResultReady(d) == tstate[d] = "finished"

\* lines 134-137: one turn of the loop over the futures.  result() raises
\* again the exception the task ended with, which leaves the with block.
Collect ==
    /\ mpc = "collect"
    /\ LET d == FutureOrder[cidx]
       IN  /\ ResultReady(d)
           /\ IF fut[d].tag = "exception"
              THEN /\ mexc' = fut[d].exc
                   /\ mpc' = "unwind"
                   /\ UNCHANGED <<cidx, mresults>>
              ELSE /\ mresults' = IF fut[d].tag = "result" /\ fut[d].value # None
                                  THEN Append(mresults, fut[d].value)
                                  ELSE mresults
                   /\ cidx' = cidx + 1
                   /\ mpc' = IF cidx = Len(FutureOrder) THEN "exit_with" ELSE "collect"
                   /\ mexc' = mexc
    /\ UNCHANGED <<wvars, nsub, final_gdf, stats, writes, files, tvars>>

\* a faulty variant of PoolJoined: shutdown(wait=False)
PoolNeverJoined == TRUE

\* ThreadPoolExecutor.__exit__ is shutdown(wait=True): it returns when every
\* submitted task has ended
PoolJoined == \A d \in Depts : tstate[d] \notin {"pending", "running"}

\* the end of the with block of line 132, reached normally or by an exception
ExitPool ==
    /\ mpc \in {"exit_with", "unwind"}
    /\ PoolJoined
    /\ mpc' = IF mpc = "exit_with" THEN "check" ELSE "crashed"
    /\ UNCHANGED <<wvars, nsub, cidx, mresults, final_gdf, stats, writes, files, mexc, tvars>>

\* a faulty variant of IsEmptyList: the test of line 139 left out
NeverEmpty(rs) == FALSE

\* `not results`, line 139
IsEmptyList(rs) == rs = <<>>

\* lines 139-141
Check ==
    /\ mpc = "check"
    /\ mpc' = IF IsEmptyList(mresults) THEN "returned_empty" ELSE "merge"
    /\ UNCHANGED <<wvars, nsub, cidx, mresults, final_gdf, stats, writes, files, mexc, tvars>>

\* line 143; pd.concat of an empty list raises ValueError
Merge ==
    /\ mpc = "merge"
    /\ IF mresults = <<>>
       THEN /\ mpc' = "crashed"
            /\ mexc' = "ValueError"
            /\ UNCHANGED final_gdf
       ELSE /\ final_gdf' = pd_concat(mresults)
            /\ mpc' = "stats"
            /\ UNCHANGED mexc
    /\ UNCHANGED <<wvars, nsub, cidx, mresults, stats, writes, files, tvars>>

\* lines 144-146
GenerateStats ==
    /\ mpc = "stats"
    /\ stats' = generate_stats(final_gdf)
    /\ mpc' = IF generate_stats(final_gdf) # None THEN "save_gpkg" ELSE "finished"
    /\ UNCHANGED <<wvars, nsub, cidx, mresults, final_gdf, writes, files, mexc, tvars>>

\* a faulty variant of WriteGpkg: the GeoJSON write placed after the try
\* statement instead of inside its except clause
WriteGpkgThenGeojson(ok) ==
    /\ mpc = "save_gpkg"
    /\ writes' = [writes EXCEPT ![GPKG] = @ + 1]
    /\ files' = IF ok THEN [files EXCEPT ![GPKG] = final_gdf] ELSE files
    /\ mpc' = "save_geojson"
    /\ UNCHANGED <<wvars, nsub, cidx, mresults, final_gdf, stats, mexc, tvars>>

\* lines 115-119: the GPKG write; an exception of it is caught
WriteGpkg(ok) ==
    /\ mpc = "save_gpkg"
    /\ writes' = [writes EXCEPT ![GPKG] = @ + 1]
    /\ files' = IF ok THEN [files EXCEPT ![GPKG] = final_gdf] ELSE files
    /\ mpc' = IF ok THEN "save_csv" ELSE "save_geojson"
    /\ UNCHANGED <<wvars, nsub, cidx, mresults, final_gdf, stats, mexc, tvars>>

\* lines 120-122: the GeoJSON write, inside the except clause; nothing catches
\* an exception of it
WriteGeojson(ok) ==
    /\ mpc = "save_geojson"
    /\ writes' = [writes EXCEPT ![GEOJSON] = @ + 1]
    /\ files' = IF ok THEN [files EXCEPT ![GEOJSON] = final_gdf] ELSE files
    /\ mpc' = IF ok THEN "save_csv" ELSE "crashed"
    /\ mexc' = IF ok THEN mexc ELSE "GeoJSONWriteError"
    /\ UNCHANGED <<wvars, nsub, cidx, mresults, final_gdf, stats, tvars>>

\* lines 124-126: the CSV write; nothing catches an exception of it
WriteCsv(ok) ==
    /\ mpc = "save_csv"
    /\ writes' = [writes EXCEPT ![CSV] = @ + 1]
    /\ files' = IF ok THEN [files EXCEPT ![CSV] = stats] ELSE files
    /\ mpc' = IF ok THEN "finished" ELSE "crashed"
    /\ mexc' = IF ok THEN mexc ELSE "CSVWriteError"
    /\ UNCHANGED <<wvars, nsub, cidx, mresults, final_gdf, stats, tvars>>

(***************************************************************************)
(* The run of main.                                                        *)
(***************************************************************************)
Init ==
    /\ IdleTiles
    /\ IdleWorkers
    /\ mpc = "submit"
    /\ nsub = 0
    /\ cidx = 1
    /\ mresults = <<>>
    /\ final_gdf = Unset
    /\ stats = Unset
    /\ writes = [f \in FileNames |-> 0]
    /\ files = [f \in FileNames |-> Unset]
    /\ mexc = "none"
    /\ fetched = <<>>

Next ==
    \/ Submit /\ UNCHANGED fetched
    \/ \E d \in Depts : Start(d) /\ UNCHANGED fetched
    \/ \E d \in Depts : \E resp \in Responses : ProcessTile(d, resp) /\ UNCHANGED fetched
    \/ \E d \in Depts : Return(d) /\ UNCHANGED fetched
    \/ Collect /\ UNCHANGED fetched
    \/ ExitPool /\ UNCHANGED fetched
    \/ Check /\ UNCHANGED fetched
    \/ Merge /\ UNCHANGED fetched
    \/ GenerateStats /\ UNCHANGED fetched
    \/ \E ok \in BOOLEAN : WriteGpkg(ok) /\ UNCHANGED fetched
    \/ \E ok \in BOOLEAN : WriteGeojson(ok) /\ UNCHANGED fetched
    \/ \E ok \in BOOLEAN : WriteCsv(ok) /\ UNCHANGED fetched

Spec == Init /\ [][Next]_vars

(***************************************************************************)
(* One call of process_department on its own, with the list of what        *)
(* get_features returned for its tiles.                                    *)
(***************************************************************************)
\* how many tiles of the call the service answers with a payload that parses
MaxAnswers == 2

Answered == {i \in 1..Len(fetched) : fetched[i] # None}

InitDept ==
    /\ IdleTiles
    /\ IdleMain
    /\ \E d0 \in Depts : tstate = [d \in Depts |-> IF d = d0 THEN "running" ELSE "idle"]
    /\ ti = [d \in Depts |-> 0]
    /\ tresults = [d \in Depts |-> <<>>]
    /\ fut = [d \in Depts |-> Unset]
    /\ fetched = <<>>

NextDept ==
    \/ \E d \in Depts : \E resp \in Responses :
          /\ resp.kind = "ok" => Cardinality(Answered) < MaxAnswers
          /\ ProcessTile(d, resp)
          /\ fetched' = Append(fetched, get_features(TilesOf[d][ti[d] + 1], d, resp))
    \/ \E d \in Depts : Return(d) /\ UNCHANGED fetched

SpecDept == InitDept /\ [][NextDept]_vars

(***************************************************************************)
(* What the tiling is required to be.                                      *)
(***************************************************************************)
\* ceil((hi - lo) / t) in exact arithmetic: the least n with lo + n*t >= hi
RECURSIVE CeilFrom(_, _, _)
CeilFrom(v, hi, t) == IF FLess(v, hi) THEN 1 + CeilFrom(ExactAdd(v, t), hi, t) ELSE 0

CeilQuot(lo, hi, t) == CeilFrom(lo, hi, t)

\* the coordinates at which tiles or the box have an edge, along one axis
Edges(lo, hi, ts, box) ==
    {box[lo], box[hi]} \cup {ts[i][lo] : i \in 1..Len(ts)} \cup {ts[i][hi] : i \in 1..Len(ts)}

\* the intervals between neighbouring edges
Cells(E) ==
    {c \in E \X E : FLess(c[1], c[2]) /\ \A m \in E : ~(FLess(c[1], m) /\ FLess(m, c[2]))}

TileHolds(t, cx, cy) ==
    FLeq(t[1], cx[1]) /\ FLeq(cx[2], t[3]) /\ FLeq(t[2], cy[1]) /\ FLeq(cy[2], t[4])

Within(t, box) ==
    FLeq(box[1], t[1]) /\ FLeq(t[3], box[3]) /\ FLeq(box[2], t[2]) /\ FLeq(t[4], box[4])

\* how many tiles hold the cell cx \X cy
Holders(ts, cx, cy) == Cardinality({i \in 1..Len(ts) : TileHolds(ts[i], cx, cy)})

\* no tile leaves the box and every cell of the box lies in some tile
CoversBox(ts, box) ==
    /\ \A i \in 1..Len(ts) : Within(ts[i], box)
    /\ \A cx \in Cells(Edges(1, 3, ts, box)) : \A cy \in Cells(Edges(2, 4, ts, box)) :
           Holders(ts, cx, cy) >= 1

\* no cell lies in two tiles
NoOverlap(ts, box) ==
    \A cx \in Cells(Edges(1, 3, ts, box)) : \A cy \in Cells(Edges(2, 4, ts, box)) :
        Holders(ts, cx, cy) <= 1

NoDuplicate(ts) == \A i, j \in 1..Len(ts) : ts[i] = ts[j] => i = j

PositiveBox(box) == FLess(box[1], box[3]) /\ FLess(box[2], box[4])

\* the decimal literal a double was read from, in hundredths
Hundredths(v) ==
    CASE v = D0_0 -> 0      [] v = D0_1 -> 10     [] v = D0_25 -> 25    [] v = D0_5 -> 50
      [] v = D0_3 -> 30     [] v = D0_8 -> 80     [] v = D2_3 -> 230    [] v = D2_4 -> 240
      [] v = D4_7 -> 470    [] v = D4_9 -> 490    [] v = D5_4 -> 540    [] v = D43_2 -> 4320
      [] v = D43_5 -> 4350  [] v = D45_7 -> 4570  [] v = D45_8 -> 4580  [] v = D48_8 -> 4880
      [] v = D48_9 -> 4890

\* ceil((hi - lo) / t) on the decimal literals
DecimalCeilQuot(lo, hi, t) ==
    (Hundredths(hi) - Hundredths(lo) + Hundredths(t) - 1) \div Hundredths(t)

\* ceil(width/tileSize) * ceil(height/tileSize), the box and the tile size taken
\* as the doubles the program holds, or as the decimal numbers they were written as
CountOnDoubles(box, t) == CeilQuot(box[1], box[3], t) * CeilQuot(box[2], box[4], t)

CountOnDecimals(box, t) == DecimalCeilQuot(box[1], box[3], t) * DecimalCeilQuot(box[2], box[4], t)

\* C1: when the loops are done the tiles exactly cover the box, no two overlap,
\* none is emitted twice, and there are ceil(width/tileSize) * ceil(height/tileSize)
\* of them (on either reading of the numbers); a box of zero area yields no tile.
C1_TilingExact ==
    tpc = "done" =>
        IF PositiveBox(bbox)
        THEN /\ CoversBox(tiles, bbox)
             /\ NoOverlap(tiles, bbox)
             /\ NoDuplicate(tiles)
             /\ Len(tiles) \in {CountOnDoubles(bbox, tsize), CountOnDecimals(bbox, tsize)}
        ELSE tiles = <<>>

\* the part of C1 that the loops do meet: cover, no overlap, no duplicate
TilingCovers ==
    tpc = "done" =>
        IF PositiveBox(bbox)
        THEN CoversBox(tiles, bbox) /\ NoOverlap(tiles, bbox) /\ NoDuplicate(tiles)
        ELSE tiles = <<>>

\* the count of C1 alone, on each reading of the numbers
TilingCountOnDoubles ==
    tpc = "done" /\ PositiveBox(bbox) => Len(tiles) = CountOnDoubles(bbox, tsize)

TilingCountOnDecimals ==
    tpc = "done" /\ PositiveBox(bbox) => Len(tiles) = CountOnDecimals(bbox, tsize)

(***************************************************************************)
(* What the run is required to do.                                         *)
(***************************************************************************)
Ended == mpc \in {"returned_empty", "finished", "crashed"}

RowsOf(v) == IF v.tag = "df" THEN v.rows ELSE <<>>

\* C2: every row of the statistics, in memory and in the written file, has a
\* total area above zero; a division whose records sum to zero area has no row.
C2_DensityFinite ==
    /\ \A i \in 1..Len(RowsOf(stats)) : stats.rows[i].total_area > 0
    /\ \A i \in 1..Len(RowsOf(files[CSV])) : files[CSV].rows[i].total_area > 0

\* the first two consecutive digits found in an identifier, NaN if there are none
DigitPairs(p) == {i \in 1..(Len(p) - 1) : p[i] \in Digits /\ p[i + 1] \in Digits}

FirstDigitPair(p) ==
    IF DigitPairs(p) = {} THEN NaN
    ELSE LET i == CHOOSE k \in DigitPairs(p) : \A j \in DigitPairs(p) : k <= j
         IN  p[i] \o p[i + 1]

\* the record is a feature the service sent, unchanged
FromService(r) ==
    \E f \in Frames : \E j \in 1..Len(f.rows) :
        f.rows[j] = Feature(r.gpu_doc_id, r.partition, r.area_km2)

Attributed(r, d) ==
    /\ r.dep = FirstDigitPair(r.partition)
    /\ r.dep = d
    /\ d \in Depts
    /\ FromService(r)

AllRows(frames) == ConcatRows(frames)

\* C3: every record a department task holds or returned, and every record of
\* main's results and of the combined dataset, carries as its code the first two
\* consecutive digits of its partition identifier, and that code is the
\* department of the task that retained it.
C3_Attribution ==
    /\ \A d \in Depts : \A i \in 1..Len(AllRows(tresults[d])) :
           Attributed(AllRows(tresults[d])[i], d)
    /\ \A d \in Depts : fut[d].tag = "result" =>
           \A i \in 1..Len(RowsOf(fut[d].value)) : Attributed(fut[d].value.rows[i], d)
    /\ \A i \in 1..Len(AllRows(mresults)) :
           LET r == AllRows(mresults)[i]
           IN  /\ r.dep \in Depts
               /\ Attributed(r, r.dep)
               /\ fut[r.dep].tag = "result"
               /\ \E j \in 1..Len(RowsOf(fut[r.dep].value)) : fut[r.dep].value.rows[j] = r
    /\ \A i \in 1..Len(RowsOf(final_gdf)) :
           LET r == final_gdf.rows[i]
           IN  /\ r.dep \in Depts
               /\ Attributed(r, r.dep)
               /\ \E j \in 1..Len(RowsOf(fut[r.dep].value)) : fut[r.dep].value.rows[j] = r

\* the combined dataset holds a record whose code comes from digits further in
\* its identifier, beside a record of another department
C3_Witness ==
    /\ \E i \in 1..Len(RowsOf(final_gdf)) : final_gdf.rows[i].partition = P_7_13
    /\ \E i \in 1..Len(RowsOf(final_gdf)) : final_gdf.rows[i].dep = "69"

\* what the tiles fetched so far owe to the result of department d: of every
\* tile whose fetch succeeded, the records of d, in tile order
OwnedRows(data, d) ==
    IF data = None THEN <<>>
    ELSE LET owned == SelectSeq(data.rows, LAMBDA f : FirstDigitPair(f.partition) = d)
         IN  [i \in 1..Len(owned) |->
                 [gpu_doc_id |-> owned[i].gpu_doc_id, partition |-> owned[i].partition,
                  dep |-> d, area_km2 |-> owned[i].geometry]]

RECURSIVE ExpectedRows(_, _)
ExpectedRows(log, d) ==
    IF log = <<>> THEN <<>> ELSE OwnedRows(Head(log), d) \o ExpectedRows(Tail(log), d)

ExpectedResult(d) ==
    IF ExpectedRows(fetched, d) = <<>> THEN None ELSE DataFrame(ExpectedRows(fetched, d))

\* C4: whatever tiles fail, a call of process_department that has ended has
\* visited every tile, and its result is the concatenation in tile order of the
\* cleaned batches of the tiles that succeeded and retained a record, absent if
\* and only if there is none.
C4_PartialFailure ==
    \A d \in Depts : tstate[d] = "finished" =>
        /\ Len(fetched) = NumTiles(d)
        /\ fut[d] = Returned(ExpectedResult(d))

\* the same for the calls that ended by returning
PartialFailureOnReturn ==
    \A d \in Depts : tstate[d] = "finished" /\ fut[d].tag = "result" =>
        /\ Len(fetched) = NumTiles(d)
        /\ fut[d] = Returned(ExpectedResult(d))

AllAbsent == \A d \in Depts : fut[d] = Returned(None)

\* C5: when every department yields absence, main comes to its early return
\* and nothing is merged, aggregated or written.
C5_ShortCircuit ==
    AllAbsent =>
        /\ mpc \in {"collect", "exit_with", "check", "returned_empty"}
        /\ mexc = "none"
        /\ final_gdf = Unset
        /\ stats = Unset
        /\ \A f \in FileNames : writes[f] = 0 /\ files[f] = Unset

\* main has returned early from a run in which every tile of every department
\* was visited and none kept a record
C5_Witness == AllAbsent /\ mpc = "returned_empty"

GeometryWritten == files[GPKG] # Unset \/ files[GEOJSON] # Unset

GpkgFailed == writes[GPKG] = 1 /\ files[GPKG] = Unset

\* the part of C6 about the geometry export
FallbackRule ==
    /\ \A f \in FileNames : writes[f] <= 1
    /\ writes[GEOJSON] = 1 => GpkgFailed
    /\ GpkgFailed /\ mpc # "save_geojson" => writes[GEOJSON] = 1
    /\ files[GPKG] # Unset => files[GPKG] = final_gdf
    /\ files[GEOJSON] # Unset =>
           files[GEOJSON] = final_gdf /\ Len(files[GEOJSON].rows) = Len(final_gdf.rows)
    /\ writes[GEOJSON] = 1 /\ files[GEOJSON] = Unset =>
           mpc = "crashed" /\ mexc = "GeoJSONWriteError"
    /\ writes[CSV] = 1 => GeometryWritten

PastBarrier ==
    mpc \in {"check", "returned_empty", "merge", "stats", "save_gpkg", "save_geojson",
             "save_csv", "finished", "crashed"}

\* C7: main is past the with block -- merging, aggregating, writing, returned
\* or ended by an exception -- only when every submitted task has ended.
C7_JoinBarrier ==
    PastBarrier => nsub = Len(DEPT_CODES) /\ \A d \in Depts : tstate[d] = "finished"

\* main left the with block by the exception of the first future, and the
\* other tasks were run to their end before it did
C7_Witness ==
    /\ mpc = "crashed"
    /\ cidx = 1
    /\ \E d \in Depts : fut[d].tag = "result" /\ ti[d] = NumTiles(d) /\ ti[d] > 0

\* a step of main that reads the slot of a future
ReadStep == mpc = "collect" /\ (cidx' # cidx \/ mpc' = "unwind")

\* no slot changes but by its own task ending
OwnSlot == \A d \in Depts : fut'[d] # fut[d] => tstate[d] = "running" /\ tstate'[d] = "finished"

\* C8 as stated: main reads a slot only when every task has ended, and a slot
\* is written by its own task only.
C8_ReadAfterAll ==
    [][(ReadStep => \A d \in Depts : tstate[d] = "finished") /\ OwnSlot]_vars

\* C8 as amended: main reads a slot only when the task of that slot has ended
\* and set it (a sibling may still run), and a slot is written by its own task
\* only.
C8_ReadAfterOwn ==
    [][(ReadStep => tstate[DEPT_CODES[cidx]] = "finished" /\ fut[DEPT_CODES[cidx]] # Unset)
       /\ OwnSlot]_vars

\* main has read the slot of the first department while a sibling still runs
C8_Witness == cidx > 1 /\ \E d \in Depts : tstate[d] = "running"

\* C9: no failure met while a tile is processed ends a task before its last
\* tile or gets out of it, and main ends in error only by the failure of the
\* fallback write.
C9_Containment ==
    /\ \A d \in Depts : tstate[d] = "finished" => fut[d].tag = "result" /\ ti[d] = NumTiles(d)
    /\ mexc \in {"none", "GeoJSONWriteError"}
    /\ mpc = "crashed" => mexc = "GeoJSONWriteError"

\* the results of the first k departments of DEPT_CODES that are not absent
RECURSIVE PresentUpTo(_)
PresentUpTo(k) ==
    IF k = 0 THEN <<>>
    ELSE PresentUpTo(k - 1) \o
         (IF fut[DEPT_CODES[k]].tag = "result" /\ fut[DEPT_CODES[k]].value # None
          THEN <<fut[DEPT_CODES[k]].value>> ELSE <<>>)

\* C10: main's results are those of the departments read so far, in the order
\* of DEPT_CODES, one at most for each, and the combined dataset is their
\* concatenation in that order, whatever the order in which the tasks ended.
C10_MergeOrder ==
    /\ mpc # "idle" => mresults = PresentUpTo(cidx - 1)
    /\ final_gdf # Unset => final_gdf = pd_concat(PresentUpTo(Len(DEPT_CODES)))

\* a combined dataset of two departments or more
C10_Witness ==
    /\ final_gdf # Unset
    /\ Len(mresults) >= 2

====
